---- MODULE Spec2Model ----
(***************************************************************************)
(* State-machine model of the two React components of the automata UI:     *)
(*   NfaToRegularGrammar (nfa-to-regular-grammar.js) and                   *)
(*   UiContainer        (ui-container).                                    *)
(* this.state of each component is one record variable; every event        *)
(* handler (field edit, button click, promise continuation) is one atomic  *)
(* action, as the UI runs them on a single thread.  Strings that the code  *)
(* takes apart (JSON text, grammar right-hand sides) are sequences of      *)
(* one-character strings; null/undefined is the empty tuple and a present  *)
(* value v is the one-element tuple <<v>>.                                 *)
(***************************************************************************)
EXTENDS Integers, Sequences, FiniteSets, TLC

VARIABLES
    mounted,    \* which component is on the page
    nfa,        \* this.state of NfaToRegularGrammar
    ui,         \* this.state of UiContainer
    requests,   \* one entry per press of Convert: the body and its two axios posts
    edits,      \* number of field edits made so far
    lastEvent,  \* the user event (change or click) handled last, with its argument
    render      \* input and output of a renderGrammar call

vars == <<mounted, nfa, ui, requests, edits, lastEvent, render>>

-----------------------------------------------------------------------------
(* Bounds of the model *)

MaxSubmissions == 2
MaxNfaEdits == 1
MaxUiEdits == 2
MaxTextLen == 3
MaxRules == 2
MaxRhsLen == 1

-----------------------------------------------------------------------------
(* Values *)

Null == <<>>
Some(x) == <<x>>

\* lodash clone: a shallow copy; values here are immutable, so the copy is the value
clone(x) == x

\* JavaScript xs[0]: undefined on an empty array
ElemAt0(xs) == IF Len(xs) = 0 THEN Null ELSE Some(xs[1])

SeqsUpTo(S, n) == UNION {[1..k -> S] : k \in 0..n}

RECURSIVE Flatten(_)
Flatten(ss) == IF ss = <<>> THEN <<>> ELSE Head(ss) \o Flatten(Tail(ss))

-----------------------------------------------------------------------------
(* renderGrammar *)

\* Array.prototype.join(',') as applied by lodash toString to an array of strings
RECURSIVE join(_)
join(list) ==
    IF list = <<>> THEN <<>>
    ELSE IF Len(list) = 1 THEN list[1]
    ELSE list[1] \o <<",">> \o join(Tail(list))

\* String.prototype.split(','): "" gives [""]
RECURSIVE splitFrom(_, _)
splitFrom(cur, rest) ==
    IF rest = <<>> THEN <<cur>>
    ELSE IF Head(rest) = "," THEN <<cur>> \o splitFrom(<<>>, Tail(rest))
    ELSE splitFrom(Append(cur, Head(rest)), Tail(rest))

\* lodash split(rules, ','), rules = [[rhs, ...]]: toString of the array, then split
split(rules) == splitFrom(<<>>, join(rules[1]))

\* `${initial} -> ${rule}`
display(initial, rule) == initial \o <<" ", "-", ">", " ">> \o rule

\* one grammar-section per entry of Object.entries, one <p> per rule
renderSection(grammarItems) ==
    LET initial == grammarItems[1]
        rules   == split(Tail(grammarItems))
    IN  [k \in 1..Len(rules) |-> display(initial, rules[k])]

renderGrammar(resultingGrammar) ==
    [k \in 1..Len(resultingGrammar) |-> renderSection(resultingGrammar[k])]

-----------------------------------------------------------------------------
(* JSON.parse, on texts over the characters { } [ ] *)

JsonChars == {"{", "}", "[", "]"}

ParseFail == [ok |-> FALSE, val |-> Null, rest |-> <<>>]

\* one JSON value at the front of s: {} | [] | [ value ]
RECURSIVE parseValue(_)
parseValue(s) ==
    IF Len(s) < 2 THEN ParseFail
    ELSE IF s[1] = "{" THEN
        IF s[2] = "}"
        THEN [ok |-> TRUE, val |-> Some([kind |-> "object", items |-> <<>>]),
              rest |-> SubSeq(s, 3, Len(s))]
        ELSE ParseFail
    ELSE IF s[1] = "[" THEN
        IF s[2] = "]"
        THEN [ok |-> TRUE, val |-> Some([kind |-> "array", items |-> <<>>]),
              rest |-> SubSeq(s, 3, Len(s))]
        ELSE LET inner == parseValue(Tail(s))
             IN  IF inner.ok /\ inner.rest # <<>> /\ Head(inner.rest) = "]"
                 THEN [ok |-> TRUE,
                       val |-> Some([kind |-> "array", items |-> inner.val]),
                       rest |-> Tail(inner.rest)]
                 ELSE ParseFail
    ELSE ParseFail

\* JSON.parse(text): ok = FALSE stands for the SyntaxError it throws
JSONparse(text) ==
    LET r == parseValue(text)
    IN  IF r.ok /\ r.rest = <<>> THEN [ok |-> TRUE, val |-> r.val[1]]
        ELSE [ok |-> FALSE, val |-> Null]

-----------------------------------------------------------------------------
(* NfaToRegularGrammar: state and inputs *)

NfaConstructor ==
    [alphabet |-> <<"a", "b">>,
     states |-> <<"Q", "W", "E">>,
     initial |-> <<"Q">>,
     finals |-> <<"W">>,
     transitionMap |-> <<>>,
     graphInput |-> Null,
     isModalOpen |-> FALSE,
     resultingAlphabet |-> Null,
     resultingStates |-> Null,
     resultingInitial |-> Null,
     resultingFinals |-> Null,
     resultingTransitionMap |-> Null,
     resultingGrammar |-> Null,
     loading |-> FALSE]

\* what the tag editors and the JSON editor can hand to the change handlers
NfaAlphabetInputs == {<<"a">>}
NfaStatesInputs == {<<"Q", "W">>}
NfaInitialInputs == {<<"X">>, <<>>}
NfaFinalsInputs == {<<>>}
NfaTransitionMapInputs == {<<[from |-> "Q", on |-> "a", to |-> <<"W">>]>>}

\* response.data of the DFA endpoint for the i-th submission: a DFA over the states
\* 0..i, so that the answers to different submissions can be told apart
DfaResponse(i) ==
    [transitionMap |-> <<[from |-> 0, on |-> "a", to |-> i]>>,
     states |-> [k \in 1..(i + 1) |-> k - 1],
     initial |-> 0,
     finals |-> <<i>>,
     alphabet |-> <<"a", "b">>]

\* response.data.result of the grammar endpoint, as Object.entries lists it
ExampleGrammar ==
    << <<(<<"q", "0">>), <<(<<"a">>), <<"a", "q", "1">>>>>>,
       <<(<<"q", "1">>), <<(<<"b">>)>>>> >>

\* response.data.result of the grammar endpoint for the i-th submission
GrammarResponse(i) ==
    IF i = 1 THEN ExampleGrammar
    ELSE << <<(<<"q", "0">>), [k \in 1..i |-> <<"a">>]>> >>

PendingRequest == [st |-> "pending", data |-> Null, alerts |-> 0]

NoEvent == [type |-> "constructor", arg |-> <<>>]
Event(t, a) == [type |-> t, arg |-> a]

Endpoints == {"dfa", "grammar"}

-----------------------------------------------------------------------------
(* NfaToRegularGrammar: handlers *)

_generateRequestBody(input) ==
    [alphabet |-> clone(input.alphabet),
     states |-> clone(input.states),
     initial |-> ElemAt0(clone(input.initial)),
     finals |-> clone(input.finals),
     transitionMap |-> clone(input.transitionMap)]

_generateGraphInput(input) ==
    [alphabet |-> clone(input.resultingAlphabet),
     states |-> clone(input.resultingStates),
     initial |-> clone(input.resultingInitial),
     finals |-> clone(input.resultingFinals),
     transitionMap |-> clone(input.resultingTransitionMap)]

_handleAlphabetChange(state, alphabet) == [state EXCEPT !.alphabet = alphabet]
\* a states edit that also drops the drawn graph
_handleStatesChangeResetsGraph(state, states) ==
    [state EXCEPT !.states = states, !.graphInput = Null]

_handleStatesChange(state, states) == [state EXCEPT !.states = states]
_handleInitialChange(state, initial) == [state EXCEPT !.initial = initial]
_handleFinalsChange(state, finals) == [state EXCEPT !.finals = finals]
_handleTransitionMapChange(state, parsedMap) ==
    [state EXCEPT !.transitionMap = parsedMap]

\* the state the DFA .then continuation sets
dfaThen(state, data) ==
    LET stateToSet ==
            [resultingTransitionMap |-> data.transitionMap,
             resultingStates |-> data.states,
             resultingInitial |-> data.initial,
             resultingFinals |-> data.finals,
             resultingAlphabet |-> data.alphabet]
    IN  [state EXCEPT
            !.resultingTransitionMap = Some(stateToSet.resultingTransitionMap),
            !.resultingStates = Some(stateToSet.resultingStates),
            !.resultingInitial = Some(stateToSet.resultingInitial),
            !.resultingFinals = Some(stateToSet.resultingFinals),
            !.resultingAlphabet = Some(stateToSet.resultingAlphabet),
            !.graphInput = Some(_generateGraphInput(stateToSet)),
            !.loading = FALSE]

\* the state the grammar .then continuation sets
grammarThen(state, result) ==
    [state EXCEPT !.resultingGrammar = Some(result), !.loading = FALSE]

\* a .catch that rolls the displayed results back
catchStateRollsBack(state) ==
    [state EXCEPT
        !.resultingTransitionMap = Null,
        !.resultingStates = Null,
        !.resultingInitial = Null,
        !.resultingFinals = Null,
        !.resultingAlphabet = Null,
        !.resultingGrammar = Null,
        !.graphInput = Null]

\* the .catch continuations call alert and set no state
catchState(state) == state

\* a .catch that swallows the error
alertSwallowed(req) == [req EXCEPT !.st = "failed"]

\* alert('Error while fetchin data!' + error), counted on the request that failed
alert(req) == [req EXCEPT !.st = "failed", !.alerts = @ + 1]

NfaMounted == mounted = "NfaToRegularGrammar"

NfaEdit(type, newState, arg) ==
    /\ NfaMounted
    /\ edits < MaxNfaEdits
    /\ nfa' = newState
    /\ edits' = edits + 1
    /\ lastEvent' = Event(type, arg)
    /\ UNCHANGED <<mounted, ui, requests, render>>

NfaHandleAlphabetChange ==
    \E v \in NfaAlphabetInputs :
        NfaEdit("_handleAlphabetChange", _handleAlphabetChange(nfa, v), v)

NfaHandleStatesChange ==
    \E v \in NfaStatesInputs :
        NfaEdit("_handleStatesChange", _handleStatesChange(nfa, v), v)

NfaHandleInitialChange ==
    \E v \in NfaInitialInputs :
        NfaEdit("_handleInitialChange", _handleInitialChange(nfa, v), v)

NfaHandleFinalsChange ==
    \E v \in NfaFinalsInputs :
        NfaEdit("_handleFinalsChange", _handleFinalsChange(nfa, v), v)

NfaHandleTransitionMapChange ==
    \E v \in NfaTransitionMapInputs :
        NfaEdit("_handleTransitionMapChange", _handleTransitionMapChange(nfa, v), v)

\* Convert button: loading on, one body, two posts
_convertToRegularGrammar ==
    /\ NfaMounted
    /\ Len(requests) < MaxSubmissions
    /\ nfa' = [nfa EXCEPT !.loading = TRUE]
    /\ requests' = Append(requests,
            [body |-> _generateRequestBody(nfa),
             dfa |-> PendingRequest,
             grammar |-> PendingRequest])
    /\ lastEvent' = Event("_convertToRegularGrammar", <<>>)
    /\ UNCHANGED <<mounted, ui, edits, render>>

\* the DFA post of submission i resolves
DfaThen(i) ==
    /\ requests[i].dfa.st = "pending"
    /\ nfa' = dfaThen(nfa, DfaResponse(i))
    /\ requests' = [requests EXCEPT ![i].dfa =
                        [@ EXCEPT !.st = "succeeded", !.data = Some(DfaResponse(i))]]
    /\ UNCHANGED <<mounted, ui, edits, lastEvent, render>>

\* the DFA post of submission i rejects
DfaCatch(i) ==
    /\ requests[i].dfa.st = "pending"
    /\ nfa' = catchState(nfa)
    /\ requests' = [requests EXCEPT ![i].dfa = alert(@)]
    /\ UNCHANGED <<mounted, ui, edits, lastEvent, render>>

\* a grammar continuation that discards the answer to a superseded submission
GrammarThenIfFresh(i) ==
    /\ requests[i].grammar.st = "pending"
    /\ nfa' = IF i = Len(requests)
              THEN grammarThen(nfa, GrammarResponse(i))
              ELSE [nfa EXCEPT !.loading = FALSE]
    /\ requests' = [requests EXCEPT ![i].grammar =
                        [@ EXCEPT !.st = "succeeded", !.data = Some(GrammarResponse(i))]]
    /\ UNCHANGED <<mounted, ui, edits, lastEvent, render>>

\* the grammar post of submission i resolves
GrammarThen(i) ==
    /\ requests[i].grammar.st = "pending"
    /\ nfa' = grammarThen(nfa, GrammarResponse(i))
    /\ requests' = [requests EXCEPT ![i].grammar =
                        [@ EXCEPT !.st = "succeeded", !.data = Some(GrammarResponse(i))]]
    /\ UNCHANGED <<mounted, ui, edits, lastEvent, render>>

\* the grammar post of submission i rejects
GrammarCatch(i) ==
    /\ requests[i].grammar.st = "pending"
    /\ nfa' = catchState(nfa)
    /\ requests' = [requests EXCEPT ![i].grammar = alert(@)]
    /\ UNCHANGED <<mounted, ui, edits, lastEvent, render>>

DfaResponseSucceeds == \E i \in 1..Len(requests) : DfaThen(i)

DfaResponseFails == \E i \in 1..Len(requests) : DfaCatch(i)

GrammarResponseSucceeds == \E i \in 1..Len(requests) : GrammarThen(i)

GrammarResponseFails == \E i \in 1..Len(requests) : GrammarCatch(i)

-----------------------------------------------------------------------------
(* UiContainer *)

UiConstructor ==
    [alphabet |-> <<"a", "b", "c">>,
     states |-> <<0, 1>>,
     initial |-> <<0>>,
     finals |-> <<1>>,
     transitionMap |-> <<>>,
     graphInput |-> Null]

UiAlphabetInputs == {<<"a">>}
UiStatesInputs == {<<0>>}
UiInitialInputs == {<<2>>, <<>>}
UiFinalsInputs == {<<>>}
\* event.target.value of the textarea
UiTextInputs == SeqsUpTo(JsonChars, MaxTextLen)

\* UiContainer._generateGraphInput: ok = FALSE when JSON.parse throws
UiGenerateGraphInput(state) ==
    LET parsed == JSONparse(state.transitionMap)
    IN  [ok |-> parsed.ok,
         val |-> IF parsed.ok
                 THEN Some([alphabet |-> clone(state.alphabet),
                            states |-> clone(state.states),
                            initial |-> ElemAt0(clone(state.initial)),
                            finals |-> clone(state.finals),
                            transitionMap |-> parsed.val])
                 ELSE Null]

\* a click handler that catches the SyntaxError and clears the graph
visualizeOnClickClears(state) ==
    LET generatedOut == UiGenerateGraphInput(state)
    IN  [state EXCEPT !.graphInput = generatedOut.val]

\* Visualize onClick: the throw leaves before setState is reached
visualizeOnClick(state) ==
    LET generatedOut == UiGenerateGraphInput(state)
    IN  IF generatedOut.ok
        THEN [state EXCEPT !.graphInput = generatedOut.val]
        ELSE state

UiHandleAlphabetChange(state, alphabet) == [state EXCEPT !.alphabet = alphabet]
UiHandleStatesChange(state, states) == [state EXCEPT !.states = states]
UiHandleInitialChange(state, initial) == [state EXCEPT !.initial = initial]
UiHandleFinalsChange(state, finals) == [state EXCEPT !.finals = finals]
UiHandleTransitionMapChange(state, value) == [state EXCEPT !.transitionMap = value]

UiMounted == mounted = "UiContainer"

UiEdit(type, newState, arg) ==
    /\ UiMounted
    /\ edits < MaxUiEdits
    /\ ui' = newState
    /\ edits' = edits + 1
    /\ lastEvent' = Event(type, arg)
    /\ UNCHANGED <<mounted, nfa, requests, render>>

UiAlphabetChange ==
    \E v \in UiAlphabetInputs :
        UiEdit("_handleAlphabetChange", UiHandleAlphabetChange(ui, v), v)

UiStatesChange ==
    \E v \in UiStatesInputs :
        UiEdit("_handleStatesChange", UiHandleStatesChange(ui, v), v)

UiInitialChange ==
    \E v \in UiInitialInputs :
        UiEdit("_handleInitialChange", UiHandleInitialChange(ui, v), v)

UiFinalsChange ==
    \E v \in UiFinalsInputs :
        UiEdit("_handleFinalsChange", UiHandleFinalsChange(ui, v), v)

UiTransitionMapChange ==
    \E v \in UiTextInputs :
        UiEdit("_handleTransitionMapChange", UiHandleTransitionMapChange(ui, v), v)

Visualize ==
    /\ UiMounted
    /\ ui' = visualizeOnClick(ui)
    /\ lastEvent' = Event("Visualize", <<>>)
    /\ UNCHANGED <<mounted, nfa, requests, edits, render>>

-----------------------------------------------------------------------------
(* The two components *)

Init ==
    /\ mounted \in {"NfaToRegularGrammar", "UiContainer"}
    /\ nfa = NfaConstructor
    /\ ui = UiConstructor
    /\ requests = <<>>
    /\ edits = 0
    /\ lastEvent = NoEvent
    /\ render = [input |-> <<>>, output |-> Null]

Next ==
    \/ NfaHandleAlphabetChange
    \/ NfaHandleStatesChange
    \/ NfaHandleInitialChange
    \/ NfaHandleFinalsChange
    \/ NfaHandleTransitionMapChange
    \/ _convertToRegularGrammar
    \/ DfaResponseSucceeds
    \/ DfaResponseFails
    \/ GrammarResponseSucceeds
    \/ GrammarResponseFails
    \/ UiAlphabetChange
    \/ UiStatesChange
    \/ UiInitialChange
    \/ UiFinalsChange
    \/ UiTransitionMapChange
    \/ Visualize

Spec == Init /\ [][Next]_vars

-----------------------------------------------------------------------------
(* Properties of the two components, checked under Spec *)

Submissions == 1..Len(requests)

Pending(i, e) == requests[i][e].st = "pending"

\* the DFA slice of the state shows the DFA response `data`
StoredFrom(state, data) ==
    /\ state.resultingTransitionMap = Some(data.transitionMap)
    /\ state.resultingStates = Some(data.states)
    /\ state.resultingInitial = Some(data.initial)
    /\ state.resultingFinals = Some(data.finals)
    /\ state.resultingAlphabet = Some(data.alphabet)
    /\ state.graphInput =
          Some([alphabet |-> data.alphabet, states |-> data.states,
                initial |-> data.initial, finals |-> data.finals,
                transitionMap |-> data.transitionMap])

\* the result of endpoint e on display is `data`
Displays(state, e, data) ==
    IF e = "dfa" THEN StoredFrom(state, data)
    ELSE state.resultingGrammar = Some(data)

Results(state) ==
    <<state.resultingTransitionMap, state.resultingStates, state.resultingInitial,
      state.resultingFinals, state.resultingAlphabet, state.graphInput,
      state.resultingGrammar>>

\* C1: when the grammar request of a submission has failed and its DFA request
\* has succeeded, exactly one alert was raised, for the grammar request, and
\* the DFA response is what the state shows (as long as no other submission's
\* DFA response has been stored too), whichever of the two completed first.
C1_DfaStoredWhenGrammarFails ==
    \A i \in Submissions :
        (requests[i].grammar.st = "failed" /\ requests[i].dfa.st = "succeeded") =>
            /\ requests[i].grammar.alerts = 1
            /\ requests[i].dfa.alerts = 0
            /\ (\A j \in Submissions \ {i} : requests[j].dfa.st # "succeeded")
                  => StoredFrom(nfa, requests[i].dfa.data[1])

C1_Witness ==
    \E i \in Submissions :
        /\ requests[i].grammar.st = "failed"
        /\ requests[i].dfa.st = "succeeded"
        /\ requests[i].grammar.alerts = 1
        /\ StoredFrom(nfa, DfaResponse(i))

\* C2: whenever every request of every submission has succeeded or failed,
\* the loading indicator is off.
C2_IdleWhenNothingPending ==
    (Submissions # {} /\ \A i \in Submissions : \A e \in Endpoints : ~Pending(i, e))
        => nfa.loading = FALSE

\* C3: the step in which a request fails raises one alert for that request and
\* changes none of the displayed results.
C3_FailureKeepsResults ==
    [][\A i \in Submissions : \A e \in Endpoints :
          (Pending(i, e) /\ requests'[i][e].st = "failed") =>
              /\ requests'[i][e].alerts = requests[i][e].alerts + 1
              /\ Results(nfa') = Results(nfa)]_vars

\* both requests of the second submission failed after the first submission's
\* results were put on display (loading is still on: nothing succeeded since)
C3_Witness ==
    /\ Len(requests) >= 2
    /\ requests[2].dfa.st = "failed"
    /\ requests[2].grammar.st = "failed"
    /\ requests[2].grammar.alerts = 1
    /\ nfa.loading = TRUE
    /\ StoredFrom(nfa, DfaResponse(1))
    /\ nfa.resultingGrammar = Some(GrammarResponse(1))

ValidInitial(spec) ==
    /\ spec.initial # Null
    /\ \E k \in 1..Len(spec.states) : spec.states[k] = spec.initial[1]

\* C5: no request is ever sent, and no graphInput ever set, for a specification
\* whose initial state is missing from its states.
C5_InvalidInitialRejected ==
    /\ \A i \in Submissions : ValidInitial(requests[i].body)
    /\ ui.graphInput # Null => ValidInitial(ui.graphInput[1])

\* C6: a click on Visualize while the transition-map text does not parse
\* leaves every field of the UiContainer state, graphInput included, as it was.
C6_VisualizeFailureKeepsState ==
    [][(UiMounted /\ lastEvent'.type = "Visualize" /\ edits' = edits
          /\ ~JSONparse(ui.transitionMap).ok) => ui' = ui]_vars

\* Visualize was clicked on unparseable text after an earlier visualization
C6_Witness ==
    /\ UiMounted
    /\ lastEvent.type = "Visualize"
    /\ ~JSONparse(ui.transitionMap).ok
    /\ ui.graphInput # Null

\* the state after the edit handler `type` ran on `old` with argument `arg`
EditedOnly(old, new, type, arg) ==
    CASE type = "_handleAlphabetChange" -> new = [old EXCEPT !.alphabet = arg]
      [] type = "_handleStatesChange" -> new = [old EXCEPT !.states = arg]
      [] type = "_handleInitialChange" -> new = [old EXCEPT !.initial = arg]
      [] type = "_handleFinalsChange" -> new = [old EXCEPT !.finals = arg]
      [] type = "_handleTransitionMapChange" -> new = [old EXCEPT !.transitionMap = arg]
      [] OTHER -> FALSE

\* C7: an edit replaces the handler's own field by the value handed in and
\* leaves every other field of the component, the other component and the
\* requests in flight unchanged.
C7_EditChangesOneField ==
    [][edits' = edits + 1 =>
          /\ requests' = requests
          /\ IF NfaMounted
             THEN ui' = ui /\ EditedOnly(nfa, nfa', lastEvent'.type, lastEvent'.arg)
             ELSE nfa' = nfa /\ EditedOnly(ui, ui', lastEvent'.type, lastEvent'.arg)]_vars

\* an initial state outside states was typed in after a conversion: it is
\* accepted and the results stay on display
C7_Witness ==
    /\ NfaMounted
    /\ lastEvent.type = "_handleInitialChange"
    /\ nfa.initial = <<"X">>
    /\ ~ValidInitial(_generateRequestBody(nfa))
    /\ StoredFrom(nfa, DfaResponse(1))
    /\ nfa.resultingGrammar = Some(GrammarResponse(1))

\* C8: while any request is pending the loading indicator is on.
C8_LoadingWhilePending ==
    (\E i \in Submissions : \E e \in Endpoints : Pending(i, e)) => nfa.loading = TRUE

\* C10: Convert is accepted while requests are pending, and a response that
\* arrives for a submission after the response of a later submission for the
\* same endpoint was stored replaces it: the stale result is the one displayed.
C10_StaleResponseApplied ==
    /\ [](NfaMounted /\ Len(requests) < MaxSubmissions
             => ENABLED _convertToRegularGrammar)
    /\ [][\A e \in Endpoints : \A i, j \in Submissions :
             (/\ i < j
              /\ requests[j][e].st = "succeeded"
              /\ Pending(i, e)
              /\ requests'[i][e].st = "succeeded")
                 => /\ Displays(nfa', e, requests'[i][e].data[1])
                    /\ ~Displays(nfa', e, requests[j][e].data[1])]_vars

\* the first submission's grammar is displayed although the second
\* submission's grammar response has been stored, while the first
\* submission's DFA request is still pending
C10_Witness ==
    /\ Len(requests) >= 2
    /\ requests[1].grammar.st = "succeeded"
    /\ requests[2].grammar.st = "succeeded"
    /\ nfa.resultingGrammar = Some(GrammarResponse(1))
    /\ nfa.resultingGrammar # Some(GrammarResponse(2))

-----------------------------------------------------------------------------
(* renderGrammar on its own: every grammar result within the bounds *)

RhsChars == {"a", ","}
LhsNames == {<<"q", "0">>, <<"q", "1">>}

RhsStrings == SeqsUpTo(RhsChars, MaxRhsLen)
RuleLists == SeqsUpTo(RhsStrings, MaxRules)

\* Object.entries of a grammar result: distinct keys, each with its rule list
GrammarResults ==
    {ExampleGrammar} \cup
    {g \in SeqsUpTo(LhsNames \X RuleLists, Cardinality(LhsNames)) :
        \A i, j \in 1..Len(g) : i # j => g[i][1] # g[j][1]}

InitRender ==
    /\ mounted = "none"
    /\ nfa = NfaConstructor
    /\ ui = UiConstructor
    /\ requests = <<>>
    /\ edits = 0
    /\ lastEvent = NoEvent
    /\ render \in [input : GrammarResults, output : {Null}]

Render ==
    /\ render.output = Null
    /\ render' = [render EXCEPT !.output = Some(renderGrammar(render.input))]
    /\ UNCHANGED <<mounted, nfa, ui, requests, edits, lastEvent>>

NextRender == Render

SpecRender == InitRender /\ [][NextRender]_vars

-----------------------------------------------------------------------------
(* Properties of renderGrammar, checked under SpecRender *)

\* the rules of a grammar result, one per right-hand side, in order
expectedRules(grammar) ==
    Flatten([k \in 1..Len(grammar) |->
                [j \in 1..Len(grammar[k][2]) |->
                    display(grammar[k][1], grammar[k][2][j])]])

\* C4: the rules rendered are exactly one `LHS -> RHS` per right-hand-side
\* entry, by state in the mapping's order and by entry within a state.
C4_OneRulePerEntry ==
    render.output # Null =>
        Flatten(render.output[1]) = expectedRules(render.input)

\* C9: a state with an empty rule list gets no rule line.
C9_EmptyListRendersNothing ==
    render.output # Null =>
        \A k \in 1..Len(render.input) :
            render.input[k][2] = <<>> => render.output[1][k] = <<>>

====
